---- MODULE Spec2Model ----
(***************************************************************************)
(* Model of the keyword retrieval pipeline of "Kewords RAG/keyword_rag.py": *)
(* GoogleAdsKeywordExtractor, KeywordVectorStore and GPTKeywordRAG.         *)
(* The store (index, keyword_data, embeddings), the two persisted artifacts *)
(* (<path>.index, <path>.pkl) and the extractor's customer_id are the       *)
(* state; every public method is one action.                                *)
(*                                                                          *)
(* Numbers: a Python float that the code derives by division is kept as an  *)
(* exact fraction [n, d]; an embedding is a pair of integers, a unit vector *)
(* having length UNIT, so an inner product of two unit vectors is a         *)
(* similarity scaled by UNIT * UNIT.  KeywordData.timestamp                  *)
(* (datetime.now()) is not part of the model: no operation reads it.        *)
(***************************************************************************)
EXTENDS Integers, Sequences, FiniteSets, TLC

VARIABLES
    customer_id,   \* GoogleAdsKeywordExtractor.customer_id: <<>> is None, <<s>> the string s
    index,         \* KeywordVectorStore.index: [exists, vecs]; exists = FALSE is None
    keyword_data,  \* KeywordVectorStore.keyword_data
    embeddings,    \* KeywordVectorStore.embeddings
    index_file,    \* the artifact <vector_store_path>.index: [exists, vecs]
    pkl_file,      \* the artifact <vector_store_path>.pkl: [exists, keyword_data, embeddings]
    loaded,        \* history: a load has read an artifact into this store object
    last,          \* the last call: its name and arguments
    outcome,       \* what the last call returned or raised
    calls,         \* how often the last call reached each external service
    request,       \* the messages the last call sent to the completion API, <<>> if none
    credentials,   \* GoogleAdsOAuth2.credentials: <<>> is None, <<c>> the credentials c
    token_file,    \* the file GoogleAdsOAuth2.token_file names: [exists, content]
    client_secrets_file,  \* whether the file GoogleAdsOAuth2.client_secrets_file names exists
    grants,        \* how many times the OAuth flow has handed out credentials
    revoked        \* the grants the authorization server has revoked

vars == <<customer_id, index, keyword_data, embeddings, index_file, pkl_file,
          loaded, last, outcome, calls, request,
          credentials, token_file, client_secrets_file, grants, revoked>>

\* the state of "Kewords RAG/keyword_rag.py" but the last call and its outcome
KeywordVars == <<customer_id, index, keyword_data, embeddings, index_file, pkl_file,
                 loaded, calls, request>>

\* the state of "Google Ads API/google_ads_oauth.py"
OAuthVars == <<credentials, token_file, client_secrets_file, grants, revoked>>

----------------------------------------------------------------------------
(* Bounds of the model. *)

MaxRecords == 2
MaxK == 2
MaxStatsRecords == 3

(* Program constants. *)

MICROS_PER_UNIT == 1000000
HIGH_VOLUME_THRESHOLD == 10000
UNIT == 5
NO_SCORE == -1000

----------------------------------------------------------------------------
(* Values. *)

RECURSIVE Gcd(_, _)
Gcd(a, b) == IF b = 0 THEN a ELSE Gcd(b, a % b)

\* the float n / d, for n >= 0 and d > 0
Frac(n, d) == LET g == Gcd(n, d) IN [n |-> n \div g, d |-> d \div g]

FracAdd(x, y) == Frac(x.n * y.d + y.n * x.d, x.d * y.d)

\* f"{x:.2f}": the value in hundredths, rounded to the nearest
Fmt2(x) == (2 * 100 * x.n + x.d) \div (2 * x.d)

Min(a, b) == IF a < b THEN a ELSE b

\* Python's seq[idx] for a valid idx, negative ones counting from the end
PyIndex(seq, idx) == IF idx >= 0 THEN seq[idx + 1] ELSE seq[Len(seq) + idx + 1]

Return(v) == [kind |-> "return", value |-> v, error |-> "none"]
Raise(e) == [kind |-> "raise", value |-> <<>>, error |-> e]

NoCalls == [api |-> 0, encode |-> 0, save |-> 0, completion |-> 0]

----------------------------------------------------------------------------
(* The keyword ideas service: what generate_keyword_ideas can answer. *)

IdeaSeo ==
    [text |-> "seo", avg_monthly_searches |-> 20000, competition |-> "LOW",
     high_top_of_page_bid_micros |-> 2500000, low_top_of_page_bid_micros |-> 1000000]

\* an idea whose metrics the service left unset
IdeaPpc ==
    [text |-> "ppc", avg_monthly_searches |-> 0, competition |-> "HIGH",
     high_top_of_page_bid_micros |-> 0, low_top_of_page_bid_micros |-> 0]

Responses == { <<>>, <<IdeaSeo>>, <<IdeaPpc, IdeaSeo>> }

\* mutant of MicrosToUnits: floor division, x // 1_000_000
MicrosToUnitsFloor(micros) == Frac(micros \div MICROS_PER_UNIT, 1)

\* x / 1_000_000 if x else 0
MicrosToUnits(micros) == IF micros # 0 THEN Frac(micros, MICROS_PER_UNIT) ELSE Frac(0, 1)

KeywordData(idea) ==
    [keyword |-> idea.text,
     search_volume |-> IF idea.avg_monthly_searches # 0 THEN idea.avg_monthly_searches ELSE 0,
     competition |-> idea.competition,
     cpc_high |-> MicrosToUnits(idea.high_top_of_page_bid_micros),
     cpc_low |-> MicrosToUnits(idea.low_top_of_page_bid_micros),
     ad_impression_share |-> 0,
     top_of_page_cpc_high |-> MicrosToUnits(idea.high_top_of_page_bid_micros),
     top_of_page_cpc_low |-> MicrosToUnits(idea.low_top_of_page_bid_micros),
     currency_code |-> "USD"]

\* customer_id.replace('-', '')
RECURSIVE StripDashes(_)
StripDashes(s) ==
    IF s = <<>> THEN <<>>
    ELSE IF Head(s) = "-" THEN StripDashes(Tail(s))
    ELSE <<Head(s)>> \o StripDashes(Tail(s))

CustomerIdInputs == { <<"-">>, <<"1", "-", "2">> }

\* mutant of CustomerIdMissing: "self.customer_id is None"
CustomerIdIsNone(cid) == cid = <<>>

\* "not self.customer_id": None or the empty string
CustomerIdMissing(cid) == cid = <<>> \/ cid[1] = <<>>

\* mutant of GetKeywordIdeasResult: the API error is logged and not raised again
GetKeywordIdeasResultSwallows(cid, api, resp) ==
    IF cid = <<>> \/ cid[1] = <<>>
    THEN [outcome |-> Raise("ValueError"), api_calls |-> 0]
    ELSE IF api = "raise"
    THEN [outcome |-> Return(<<>>), api_calls |-> 1]
    ELSE [outcome |-> Return([i \in 1..Len(resp) |-> KeywordData(resp[i])]),
          api_calls |-> 1]

\* mutant of GetKeywordIdeasResult: a failed request is sent a second time
GetKeywordIdeasResultRetries(cid, api, resp) ==
    IF cid = <<>> \/ cid[1] = <<>>
    THEN [outcome |-> Raise("ValueError"), api_calls |-> 0]
    ELSE IF api = "raise"
    THEN [outcome |-> Raise("GoogleAdsException"), api_calls |-> 2]
    ELSE [outcome |-> Return([i \in 1..Len(resp) |-> KeywordData(resp[i])]),
          api_calls |-> 1]

(* get_keyword_ideas: api is what the service does, "raise" or "ok", and   *)
(* resp the ideas it answers with.  Returns [outcome, calls].               *)
GetKeywordIdeasResult(cid, api, resp) ==
    IF CustomerIdMissing(cid)
    THEN [outcome |-> Raise("ValueError"), api_calls |-> 0]
    ELSE IF api = "raise"
    THEN [outcome |-> Raise("GoogleAdsException"), api_calls |-> 1]
    ELSE [outcome |-> Return([i \in 1..Len(resp) |-> KeywordData(resp[i])]),
          api_calls |-> 1]

----------------------------------------------------------------------------
(* The embedding model and the similarity index. *)

\* the text add_keywords embeds for a record; search embeds the query itself
KeywordText(kd) ==
    [keyword |-> kd.keyword, search_volume |-> kd.search_volume,
     competition |-> kd.competition,
     cpc_low |-> Fmt2(kd.cpc_low), cpc_high |-> Fmt2(kd.cpc_high)]

QueryText(q) == [query |-> q]

Queries == {"seo tips", "ad cost"}

(* SentenceTransformer.encode for one text: a deterministic function of the *)
(* text, not of unit length.                                                 *)
ModelEncode(text) ==
    IF "query" \in DOMAIN text
    THEN (IF text.query = "seo tips" THEN <<6, 8>> ELSE <<5, 0>>)
    ELSE LET dir == IF text.keyword = "seo" THEN <<3, 4>> ELSE <<4, 3>>
             w == IF text.competition = "HIGH" THEN 2 ELSE 1
         IN <<w * dir[1], w * dir[2]>>

Dot(u, v) == u[1] * v[1] + u[2] * v[2]

ISqrt(s) == CHOOSE r \in 0..s : r * r <= s /\ s < (r + 1) * (r + 1)

\* faiss.normalize_L2 on one row: a zero row is left alone
NormalizeL2(v) ==
    LET norm == ISqrt(Dot(v, v))
    IN IF norm = 0 THEN v
       ELSE <<(v[1] * UNIT) \div norm, (v[2] * UNIT) \div norm>>

Reverse(xs) == [i \in 1..Len(xs) |-> xs[Len(xs) + 1 - i]]

\* mutant of IndexAdd: the rows of a batch go in back to front
IndexAddReversed(vecs, rows) == vecs \o Reverse(rows)

\* faiss index.add: the rows are appended after the stored ones, in order
IndexAdd(vecs, rows) == vecs \o rows

(* faiss IndexFlatIP.search for one query: k (position, score) pairs by    *)
(* descending inner product, positions counted from 0; the order among     *)
(* equal scores is the library's; when fewer than k vectors are stored the  *)
(* rest is padded with position -1 and the lowest score.  The set of       *)
(* answers the library may give.                                            *)
FaissSearch(vecs, qv, k) ==
    LET n == Len(vecs)
        m == Min(k, n)
        Score(i) == Dot(vecs[i], qv)
        IsRanking(p) ==
            /\ \A a, b \in 1..m : a # b => p[a] # p[b]
            /\ \A a \in 1..m : \A b \in 1..m : a < b => Score(p[a]) >= Score(p[b])
            /\ \A i \in 1..n : (\A a \in 1..m : p[a] # i)
                                  => \A a \in 1..m : Score(i) <= Score(p[a])
    IN { [j \in 1..k |-> IF j <= m THEN [idx |-> p[j] - 1, score |-> Score(p[j])]
                                  ELSE [idx |-> -1, score |-> NO_SCORE]]
         : p \in { f \in [1..m -> 1..n] : IsRanking(f) } }

----------------------------------------------------------------------------
(* KeywordVectorStore.  A store is [index, keyword_data, embeddings]. *)

NoIndex == [exists |-> FALSE, vecs |-> <<>>]

\* KeywordVectorStore.__init__
EmptyStore == [index |-> NoIndex, keyword_data |-> <<>>, embeddings |-> <<>>]

Store == [index |-> index, keyword_data |-> keyword_data, embeddings |-> embeddings]

AddFaults == {"none", "encode", "flat", "index_add"}

\* mutant of AddKeywordsResult: the batch replaces the stored records
AddKeywordsResultReplaces(store, keyword_data_list, fault) ==
    LET rows == [i \in 1..Len(keyword_data_list) |->
                    NormalizeL2(ModelEncode(KeywordText(keyword_data_list[i])))]
    IN IF fault # "none"
       THEN [store |-> store, outcome |-> Raise("EncodeError")]
       ELSE [store |-> [index |-> [exists |-> TRUE,
                                   vecs |-> IndexAdd(store.index.vecs, rows)],
                        keyword_data |-> keyword_data_list,
                        embeddings |-> rows],
             outcome |-> Return("None")]

\* mutant of AddKeywordsResult: the batch is recorded before it is embedded
AddKeywordsResultRecordsFirst(store, keyword_data_list, fault) ==
    LET rows == [i \in 1..Len(keyword_data_list) |->
                    NormalizeL2(ModelEncode(KeywordText(keyword_data_list[i])))]
        recorded == [store EXCEPT !.keyword_data = @ \o keyword_data_list]
    IN IF fault = "encode" THEN [store |-> recorded, outcome |-> Raise("EncodeError")]
       ELSE IF fault = "flat" THEN [store |-> recorded, outcome |-> Raise("IndexError")]
       ELSE IF fault = "index_add"
       THEN [store |-> [recorded EXCEPT !.index.exists = TRUE],
             outcome |-> Raise("FaissError")]
       ELSE [store |-> [index |-> [exists |-> TRUE,
                                   vecs |-> IndexAdd(store.index.vecs, rows)],
                        keyword_data |-> recorded.keyword_data,
                        embeddings |-> store.embeddings \o rows],
             outcome |-> Return("None")]

(* add_keywords.  fault is what the libraries do: "encode" - model.encode   *)
(* raises; "flat" - for an empty batch encode answers a one-dimensional     *)
(* empty array, so shape[1] (or normalize_L2) raises; "index_add" -         *)
(* index.add raises; "none" - every call succeeds.                          *)
AddKeywordsResult(store, keyword_data_list, fault) ==
    LET texts == [i \in 1..Len(keyword_data_list) |-> KeywordText(keyword_data_list[i])]
        rows == [i \in 1..Len(texts) |-> NormalizeL2(ModelEncode(texts[i]))]
        created == IF store.index.exists THEN store.index
                   ELSE [exists |-> TRUE, vecs |-> <<>>]
    IN IF fault = "encode"
       THEN [store |-> store, outcome |-> Raise("EncodeError")]
       ELSE IF fault = "flat"
       THEN [store |-> store, outcome |-> Raise("IndexError")]
       ELSE IF fault = "index_add"
       THEN [store |-> [store EXCEPT !.index = created],
             outcome |-> Raise("FaissError")]
       ELSE [store |-> [index |-> [exists |-> TRUE,
                                   vecs |-> IndexAdd(created.vecs, rows)],
                        keyword_data |-> store.keyword_data \o keyword_data_list,
                        embeddings |-> store.embeddings \o rows],
             outcome |-> Return("None")]

\* mutant of SearchHits: each hit is put in front of the ones found so far
RECURSIVE SearchHitsBackwards(_, _)
SearchHitsBackwards(kd, found) ==
    IF found = <<>> THEN <<>>
    ELSE LET h == Head(found)
         IN SearchHitsBackwards(kd, Tail(found))
            \o (IF h.idx < Len(kd) THEN << <<PyIndex(kd, h.idx), h.score>> >> ELSE <<>>)

\* the loop of search over the library's answer: "if idx < len(self.keyword_data)"
RECURSIVE SearchHits(_, _)
SearchHits(kd, found) ==
    IF found = <<>> THEN <<>>
    ELSE LET h == Head(found)
         IN (IF h.idx < Len(kd) THEN << <<PyIndex(kd, h.idx), h.score>> >> ELSE <<>>)
            \o SearchHits(kd, Tail(found))

\* mutant of SearchIsEmpty: only the missing index is tested
SearchIsEmptyIndexOnly(store) == ~store.index.exists

\* the early return of search
SearchIsEmpty(store) == ~store.index.exists \/ Len(store.keyword_data) = 0

(* search: the outcomes it may have.  fault = "encode": model.encode raises. *)
(* keyword_data[idx] raises IndexError for a position before the start.      *)
SearchOutcomes(store, query, k, fault) ==
    IF SearchIsEmpty(store)
    THEN { Return(<<>>) }
    ELSE IF fault = "encode"
    THEN { Raise("EncodeError") }
    ELSE { IF \E j \in 1..k : found[j].idx < -Len(store.keyword_data)
           THEN Raise("IndexError")
           ELSE Return(SearchHits(store.keyword_data, found)) :
             found \in FaissSearch(store.index.vecs,
                                   NormalizeL2(ModelEncode(QueryText(query))), k) }

(* The artifacts.  A disk is [index_file, pkl_file]. *)

NoIndexFile == [exists |-> FALSE, vecs |-> <<>>]
NoPklFile == [exists |-> FALSE, keyword_data |-> <<>>, embeddings |-> <<>>]

Disk == [index_file |-> index_file, pkl_file |-> pkl_file]

SaveFaults == {"none", "index_write", "pkl_write"}

\* mutant of WrittenIndexFile: save leaves <path>.index as it was
WrittenIndexFileNever(store, old) == old

\* save writes <path>.index only for a store that has an index
WrittenIndexFile(store, old) ==
    IF store.index.exists THEN [exists |-> TRUE, vecs |-> store.index.vecs] ELSE old

(* save.  fault "index_write": faiss.write_index raises (nothing written);  *)
(* "pkl_write": opening <path>.pkl raises, after the index was written.     *)
SaveResult(store, disk, fault) ==
    IF fault = "index_write" /\ store.index.exists
    THEN [disk |-> disk, outcome |-> Raise("IOError")]
    ELSE IF fault = "pkl_write"
    THEN [disk |-> [disk EXCEPT !.index_file = WrittenIndexFile(store, disk.index_file)],
          outcome |-> Raise("IOError")]
    ELSE [disk |-> [index_file |-> WrittenIndexFile(store, disk.index_file),
                    pkl_file |-> [exists |-> TRUE,
                                  keyword_data |-> store.keyword_data,
                                  embeddings |-> store.embeddings]],
          outcome |-> Return("None")]

LoadFaults == {"none", "index_read", "pkl_read"}

\* mutant of LoadedIndex: load leaves the index of the store as it was
LoadedIndexNever(store, disk) == store.index

\* the first "if" of load: the index is read only when <path>.index exists
LoadedIndex(store, disk) ==
    IF disk.index_file.exists
    THEN [exists |-> TRUE, vecs |-> disk.index_file.vecs]
    ELSE store.index

(* load.  fault "index_read": faiss.read_index raises; "pkl_read":          *)
(* pickle.load raises, after the index was read.                            *)
LoadResult(store, disk, fault) ==
    IF fault = "index_read" /\ disk.index_file.exists
    THEN [store |-> store, outcome |-> Raise("IOError")]
    ELSE IF fault = "pkl_read" /\ disk.pkl_file.exists
    THEN [store |-> [store EXCEPT !.index = LoadedIndex(store, disk)],
          outcome |-> Raise("IOError")]
    ELSE [store |-> [index |-> LoadedIndex(store, disk),
                     keyword_data |-> IF disk.pkl_file.exists
                                      THEN disk.pkl_file.keyword_data
                                      ELSE store.keyword_data,
                     embeddings |-> IF disk.pkl_file.exists
                                    THEN disk.pkl_file.embeddings
                                    ELSE store.embeddings],
          outcome |-> Return("None")]

----------------------------------------------------------------------------
(* GPTKeywordRAG. *)

\* f"{score:.3f}": the similarity in thousandths, rounded to the nearest
Fmt3Score(score) == (2 * 1000 * score + UNIT * UNIT) \div (2 * UNIT * UNIT)

\* mutant of FormatKeywordContext: enumerate without its start, numbering from 0
FormatKeywordContextFromZero(keyword_results) ==
    IF keyword_results = <<>>
    THEN [text |-> "No relevant keyword data found.", entries |-> <<>>]
    ELSE [text |-> "Relevant Keyword Data:",
          entries |-> [i \in 1..Len(keyword_results) |->
              LET kd == keyword_results[i][1]
              IN [number |-> i - 1, keyword |-> kd.keyword,
                  search_volume |-> kd.search_volume,
                  competition |-> kd.competition,
                  cpc_low |-> Fmt2(kd.cpc_low), cpc_high |-> Fmt2(kd.cpc_high),
                  relevance |-> Fmt3Score(keyword_results[i][2])]]]

\* _format_keyword_context
FormatKeywordContext(keyword_results) ==
    IF keyword_results = <<>>
    THEN [text |-> "No relevant keyword data found.", entries |-> <<>>]
    ELSE [text |-> "Relevant Keyword Data:",
          entries |-> [i \in 1..Len(keyword_results) |->
              LET kd == keyword_results[i][1]
              IN [number |-> i, keyword |-> kd.keyword,
                  search_volume |-> kd.search_volume,
                  competition |-> kd.competition,
                  cpc_low |-> Fmt2(kd.cpc_low), cpc_high |-> Fmt2(kd.cpc_high),
                  relevance |-> Fmt3Score(keyword_results[i][2])]]]

\* the user prompt of query; the last sentence only with include_recommendations
UserPrompt(user_query, keyword_context, include_recommendations) ==
    <<"User Query: ", user_query, keyword_context,
      "Please provide a comprehensive answer based on the keyword data above.">>
    \o (IF include_recommendations
        THEN <<"Include strategic recommendations for keyword targeting and campaign optimization.">>
        ELSE <<>>)

Messages(user_prompt) ==
    << [role |-> "system", content |-> "expert digital marketing analyst"],
       [role |-> "user", content |-> user_prompt] >>

\* mutant of QueryResult: what the completion call raises is raised again
QueryResultReraises(user_query, found, include_recommendations, completion) ==
    IF found.kind = "raise"
    THEN [outcome |-> found, request |-> <<>>, completion_calls |-> 0]
    ELSE [outcome |-> IF completion = "raise" THEN Raise("APIError")
                      ELSE Return(<<"completion text">>),
          request |-> Messages(UserPrompt(user_query, FormatKeywordContext(found.value),
                                          include_recommendations)),
          completion_calls |-> 1]

(* query, after search answered found (an outcome of search).  completion  *)
(* is what the completion API does: "raise" or "ok".                        *)
QueryResult(user_query, found, include_recommendations, completion) ==
    IF found.kind = "raise"
    THEN [outcome |-> found, request |-> <<>>, completion_calls |-> 0]
    ELSE LET msgs == Messages(UserPrompt(user_query, FormatKeywordContext(found.value),
                                         include_recommendations))
         IN [outcome |-> IF completion = "raise"
                         THEN Return(<<"Error generating response: ", "APIError">>)
                         ELSE Return(<<"completion text">>),
             request |-> msgs, completion_calls |-> 1]

\* pandas mean of a column of integers
RECURSIVE SumInts(_)
SumInts(xs) == IF xs = <<>> THEN 0 ELSE Head(xs) + SumInts(Tail(xs))

RECURSIVE SumFracs(_)
SumFracs(xs) == IF xs = <<>> THEN Frac(0, 1) ELSE FracAdd(Head(xs), SumFracs(Tail(xs)))

\* len(df[...]): the number of rows in the set of positions sel
CountRows(sel) == Cardinality(sel)

\* the r-th smallest entry of xs, r in 1..Len(xs)
Ranked(xs, r) ==
    CHOOSE v \in { xs[i] : i \in 1..Len(xs) } :
        /\ CountRows({ i \in 1..Len(xs) : xs[i] < v }) < r
        /\ CountRows({ i \in 1..Len(xs) : xs[i] <= v }) >= r

\* mutant of Median: the lower of the two middle entries of an even column
MedianLowerMiddle(xs) == Frac(Ranked(xs, (Len(xs) + 1) \div 2), 1)

\* pandas median: the middle entry, or the mean of the two middle entries
Median(xs) ==
    LET n == Len(xs)
    IN IF n % 2 = 1 THEN Frac(Ranked(xs, (n + 1) \div 2), 1)
       ELSE Frac(Ranked(xs, n \div 2) + Ranked(xs, n \div 2 + 1), 2)

\* mutant of KeywordStats: no early return for an empty store
KeywordStatsNoEarlyReturn(kds) ==
    [total_keywords |-> Len(kds),
     high_volume_keywords |->
         Cardinality({ i \in 1..Len(kds) : kds[i].search_volume > HIGH_VOLUME_THRESHOLD }),
     low_competition_keywords |->
         Cardinality({ i \in 1..Len(kds) : kds[i].competition = "LOW" })]

\* get_keyword_stats
KeywordStats(kds) ==
    IF kds = <<>>
    THEN [total_keywords |-> 0]
    ELSE LET n == Len(kds)
             vol == [i \in 1..n |-> kds[i].search_volume]
             high == [i \in 1..n |-> kds[i].cpc_high]
             s == SumFracs(high)
         IN [total_keywords |-> n,
             avg_search_volume |-> Frac(SumInts(vol), n),
             median_search_volume |-> Median(vol),
             avg_cpc |-> Frac(s.n, s.d * n),
             competition_distribution |->
                 [c \in { kds[i].competition : i \in 1..n } |->
                     CountRows({ i \in 1..n : kds[i].competition = c })],
             high_volume_keywords |->
                 CountRows({ i \in 1..n : kds[i].search_volume > HIGH_VOLUME_THRESHOLD }),
             low_competition_keywords |->
                 CountRows({ i \in 1..n : kds[i].competition = "LOW" })]
----------------------------------------------------------------------------
(* GoogleAdsOAuth2.  Credentials are [grant, expired, refresh_token]: the   *)
(* OAuth flow run that handed them out, whether their access token has      *)
(* expired, and whether they carry a refresh token.  The credentials this   *)
(* program writes always carry an access token, so they are valid exactly   *)
(* when they have not expired.                                              *)

MaxGrants == 2

NoTokenFile == [exists |-> FALSE, content |-> <<>>]

\* Credentials.valid
Valid(c) == ~c.expired

\* what the OAuth flow hands out on its n-th run
FlowCredentials(n, offline) == [grant |-> n, expired |-> FALSE, refresh_token |-> offline]

\* pickle.dump(self.credentials, token)
WrittenTokenFile(creds) == [exists |-> TRUE, content |-> creds]

(* authenticate, for a handler holding creds, the token file being file,    *)
(* secrets telling whether the client secrets file exists and n counting    *)
(* the flows run so far.  refresh is what Credentials.refresh does ("ok" or  *)
(* "raise"), flow what the OAuth flow does, offline whether the flow hands   *)
(* out a refresh token.  Gives the handler's credentials, the token file,    *)
(* the flow count and the outcome.                                           *)
AuthenticateResult(creds, file, secrets, n, refresh, flow, offline) ==
    LET held == IF file.exists THEN file.content ELSE creds
        refreshable == held # <<>> /\ held[1].expired /\ held[1].refresh_token
        kept == IF ~refreshable THEN held
                ELSE IF refresh = "ok" THEN << [held[1] EXCEPT !.expired = FALSE] >>
                ELSE <<>>
        fresh == << FlowCredentials(n + 1, offline) >>
    IN IF held # <<>> /\ Valid(held[1])
       THEN [credentials |-> held, token_file |-> file, grants |-> n,
             outcome |-> Return(held)]
       ELSE IF kept # <<>>
       THEN [credentials |-> kept, token_file |-> WrittenTokenFile(kept), grants |-> n,
             outcome |-> Return(kept)]
       ELSE IF ~secrets
       THEN [credentials |-> <<>>, token_file |-> file, grants |-> n,
             outcome |-> Raise("FileNotFoundError")]
       ELSE IF flow = "raise"
       THEN [credentials |-> <<>>, token_file |-> file, grants |-> n,
             outcome |-> Raise("FlowError")]
       ELSE [credentials |-> fresh, token_file |-> WrittenTokenFile(fresh), grants |-> n + 1,
             outcome |-> Return(fresh)]

\* self.credentials.refresh_token: None (<<>>) or the token of the grant
RefreshTokenOf(c) == IF c.refresh_token THEN <<c.grant>> ELSE <<>>

\* the dict get_token_info returns
TokenInfo(c) ==
    [access_token |-> c.grant, refresh_token |-> RefreshTokenOf(c), expired |-> c.expired]

(* revoke_credentials: the credentials held are revoked at the server,      *)
(* unless that call fails, and the token file is removed; the handler keeps  *)
(* its credentials.                                                          *)
RevokeResult(creds, file, rev, revoke) ==
    [credentials |-> creds,
     token_file |-> NoTokenFile,
     revoked |-> IF creds # <<>> /\ revoke = "ok" THEN rev \cup {creds[1].grant} ELSE rev]


----------------------------------------------------------------------------------------------------------------------------------------------
(* The state machine.  An action whose libraries or services can fail takes *)
(* the set of faults to draw from, so that a specification chooses which    *)
(* failures it explores.                                                    *)

KeywordBatches == { [i \in 1..Len(r) |-> KeywordData(r[i])] : r \in Responses }

Call(op, args) == [op |-> op, args |-> args]

SetStore(store) ==
    /\ index' = store.index
    /\ keyword_data' = store.keyword_data
    /\ embeddings' = store.embeddings

SetDisk(disk) ==
    /\ index_file' = disk.index_file
    /\ pkl_file' = disk.pkl_file

\* mutant of StoreUnchanged: the records are put in another order in place
StoreRecordsReversed ==
    /\ keyword_data' = Reverse(keyword_data)
    /\ UNCHANGED <<index, embeddings, loaded>>

StoreUnchanged == UNCHANGED <<index, keyword_data, embeddings, loaded>>
DiskUnchanged == UNCHANGED <<index_file, pkl_file>>

\* the model's bound on the store: n more entries fit its three sequences
Fits(n) ==
    /\ Len(keyword_data) + n <= MaxRecords
    /\ Len(index.vecs) + n <= MaxRecords
    /\ Len(embeddings) + n <= MaxRecords

\* only the read of an artifact that is there can fail
ReadFails(fault) ==
    /\ fault = "index_read" => index_file.exists
    /\ fault = "pkl_read" => pkl_file.exists

\* a load reads an artifact into the store when one is there
ReadsArtifact(disk) == disk.index_file.exists \/ disk.pkl_file.exists

Init ==
    /\ customer_id = <<>>
    /\ index = NoIndex
    /\ keyword_data = <<>>
    /\ embeddings = <<>>
    /\ index_file = NoIndexFile
    /\ pkl_file = NoPklFile
    /\ loaded = FALSE
    /\ last = Call("init", <<>>)
    /\ outcome = Return("None")
    /\ calls = NoCalls
    /\ request = <<>>
    /\ credentials = <<>>
    /\ token_file = NoTokenFile
    /\ client_secrets_file = TRUE
    /\ grants = 0
    /\ revoked = {}

\* GoogleAdsKeywordExtractor.set_customer_id
SetCustomerId ==
    \E c \in CustomerIdInputs :
        /\ customer_id' = <<StripDashes(c)>>
        /\ last' = Call("set_customer_id", <<c>>)
        /\ outcome' = Return("None")
        /\ calls' = NoCalls
        /\ request' = <<>>
        /\ UNCHANGED OAuthVars
        /\ StoreUnchanged /\ DiskUnchanged

\* GoogleAdsKeywordExtractor.get_keyword_ideas
GetKeywordIdeas ==
    \E api \in {"ok", "raise"}, resp \in Responses :
        LET r == GetKeywordIdeasResult(customer_id, api, resp)
        IN /\ last' = Call("get_keyword_ideas",
                            IF r.outcome.kind = "return" THEN <<resp>> ELSE <<>>)
           /\ outcome' = r.outcome
           /\ calls' = [NoCalls EXCEPT !.api = r.api_calls]
           /\ request' = <<>>
           /\ UNCHANGED OAuthVars
           /\ UNCHANGED customer_id /\ StoreUnchanged /\ DiskUnchanged

\* KeywordVectorStore.__init__: a new, empty store object
NewStore ==
    /\ SetStore(EmptyStore)
    /\ loaded' = FALSE
    /\ last' = Call("new_store", <<>>)
    /\ outcome' = Return("None")
    /\ calls' = NoCalls
    /\ request' = <<>>
    /\ UNCHANGED OAuthVars
    /\ UNCHANGED customer_id /\ DiskUnchanged

\* KeywordVectorStore.add_keywords
AddKeywords(faults) ==
    \E batch \in KeywordBatches, fault \in faults :
        /\ Fits(Len(batch))
        /\ fault = "flat" => batch = <<>>
        /\ LET r == AddKeywordsResult(Store, batch, fault)
           IN /\ SetStore(r.store)
              /\ outcome' = r.outcome
        /\ last' = Call("add_keywords", <<batch, fault>>)
        /\ calls' = [NoCalls EXCEPT !.encode = 1]
        /\ request' = <<>>
        /\ UNCHANGED OAuthVars
        /\ UNCHANGED <<customer_id, loaded>> /\ DiskUnchanged

\* KeywordVectorStore.search
Search(queries, faults) ==
    \E query \in queries, k \in 1..MaxK, fault \in faults :
        \E o \in SearchOutcomes(Store, query, k, fault) :
            /\ outcome' = o
            /\ last' = Call("search", <<query, k>>)
            /\ calls' = [NoCalls EXCEPT !.encode = IF SearchIsEmpty(Store) THEN 0 ELSE 1]
            /\ request' = <<>>
            /\ UNCHANGED OAuthVars
            /\ UNCHANGED customer_id /\ StoreUnchanged /\ DiskUnchanged

\* KeywordVectorStore.save
Save(faults) ==
    \E fault \in faults :
        LET r == SaveResult(Store, Disk, fault)
        IN /\ fault = "index_write" => index.exists
           /\ SetDisk(r.disk)
           /\ outcome' = r.outcome
           /\ last' = Call("save", <<>>)
           /\ calls' = [NoCalls EXCEPT !.save = 1]
           /\ request' = <<>>
           /\ UNCHANGED OAuthVars
           /\ UNCHANGED customer_id /\ StoreUnchanged

\* KeywordVectorStore.load
Load(faults) ==
    \E fault \in faults :
        LET r == LoadResult(Store, Disk, fault)
        IN /\ ReadFails(fault)
           /\ SetStore(r.store)
           /\ loaded' = (loaded \/ ReadsArtifact(Disk))
           /\ outcome' = r.outcome
           /\ last' = Call("load", <<fault>>)
           /\ calls' = NoCalls
           /\ request' = <<>>
           /\ UNCHANGED OAuthVars
           /\ UNCHANGED customer_id /\ DiskUnchanged

(* GPTKeywordRAG.__init__: a new extractor bound to customer_id, a new     *)
(* store, and _load_existing_data, which logs what load raises.             *)
RagInit(faults) ==
    \E c \in CustomerIdInputs, fault \in faults :
        LET r == LoadResult(EmptyStore, Disk, fault)
        IN /\ ReadFails(fault)
           /\ customer_id' = <<StripDashes(c)>>
           /\ SetStore(r.store)
           /\ loaded' = ReadsArtifact(Disk)
           /\ outcome' = Return("None")
           /\ last' = Call("rag_init", <<c>>)
           /\ calls' = NoCalls
           /\ request' = <<>>
           /\ UNCHANGED OAuthVars
           /\ DiskUnchanged

(* GPTKeywordRAG.update_keyword_data: get_keyword_ideas, add_keywords,     *)
(* save; what any of them raises is logged and raised again.                *)
UpdateKeywordData(apis, addFaults, saveFaults) ==
    \E api \in apis, resp \in Responses,
       addFault \in addFaults, saveFault \in saveFaults :
        LET g == GetKeywordIdeasResult(customer_id, api, resp)
            batch == g.outcome.value
            a == AddKeywordsResult(Store, batch, addFault)
            s == SaveResult(a.store, Disk, saveFault)
        IN /\ Fits(Len(resp))
           /\ addFault = "flat" => resp = <<>>
           \* a step that is not reached has no fault to draw
           /\ g.outcome.kind = "raise" => resp = <<>> /\ addFault = "none"
           /\ CustomerIdMissing(customer_id) => api = "ok"
           /\ addFault # "none" => saveFault = "none"
           /\ IF g.outcome.kind = "raise"
              THEN /\ outcome' = g.outcome
                   /\ last' = Call("update_keyword_data", <<batch, api>>)
                   /\ calls' = [NoCalls EXCEPT !.api = g.api_calls]
                   /\ UNCHANGED <<index, keyword_data, embeddings>> /\ DiskUnchanged
              ELSE IF a.outcome.kind = "raise"
              THEN /\ outcome' = a.outcome
                   /\ last' = Call("update_keyword_data", <<batch, api>>)
                   /\ calls' = [NoCalls EXCEPT !.api = 1, !.encode = 1]
                   /\ SetStore(a.store) /\ DiskUnchanged
              ELSE /\ outcome' = s.outcome
                   /\ last' = Call("update_keyword_data", <<batch, api>>)
                   /\ calls' = [NoCalls EXCEPT !.api = 1, !.encode = 1, !.save = 1]
                   /\ SetStore(a.store) /\ SetDisk(s.disk)
           /\ request' = <<>>
           /\ UNCHANGED OAuthVars
           /\ UNCHANGED <<customer_id, loaded>>

\* GPTKeywordRAG.query
Query(queries, faults, completions) ==
    \E user_query \in queries, max_keywords \in 1..MaxK,
       include_recommendations \in BOOLEAN,
       fault \in faults, completion \in completions :
        \E found \in SearchOutcomes(Store, user_query, max_keywords, fault) :
            \* a completion call that is not reached has no result to draw
            /\ found.kind = "raise" => completion = "ok"
            /\ LET r == QueryResult(user_query, found, include_recommendations, completion)
               IN /\ outcome' = r.outcome
                  /\ request' = r.request
                  /\ UNCHANGED OAuthVars
                  /\ last' = Call("query", <<user_query, max_keywords,
                                             include_recommendations, completion>>)
                  /\ calls' = [NoCalls EXCEPT
                                  !.encode = IF SearchIsEmpty(Store) THEN 0 ELSE 1,
                                  !.completion = r.completion_calls]
                  /\ UNCHANGED customer_id /\ StoreUnchanged /\ DiskUnchanged

\* GPTKeywordRAG.get_keyword_stats
GetKeywordStats ==
    /\ outcome' = Return(KeywordStats(keyword_data))
    /\ last' = Call("get_keyword_stats", <<>>)
    /\ calls' = NoCalls
    /\ request' = <<>>
    /\ UNCHANGED OAuthVars
    /\ UNCHANGED customer_id /\ StoreUnchanged /\ DiskUnchanged

(* KeywordVectorStore on its own, its libraries and the file system failing *)
(* where they can.                                                          *)
NextStore ==
    \/ NewStore
    \/ AddKeywords(AddFaults)
    \/ Search(Queries, {"none", "encode"})
    \/ Save(SaveFaults)
    \/ Load(LoadFaults)

SpecStore == Init /\ [][NextStore]_vars

(* GPTKeywordRAG and its extractor, every service failing where it can.     *)
NextRag ==
    \/ SetCustomerId
    \/ GetKeywordIdeas
    \/ RagInit(LoadFaults)
    \/ UpdateKeywordData({"ok", "raise"}, AddFaults, SaveFaults)
    \/ Query({"ad cost"}, {"none", "encode"}, {"ok", "raise"})
    \/ GetKeywordStats

SpecRag == Init /\ [][NextRag]_vars

(* Every operation of the three classes, the libraries and services         *)
(* answering.                                                               *)
Next ==
    \/ SetCustomerId
    \/ GetKeywordIdeas
    \/ NewStore
    \/ AddKeywords({"none"})
    \/ Search({"ad cost"}, {"none"})
    \/ Save({"none"})
    \/ Load({"none"})
    \/ RagInit({"none"})
    \/ UpdateKeywordData({"ok"}, {"none"}, {"none"})
    \/ Query({"ad cost"}, {"none"}, {"ok", "raise"})
    \/ GetKeywordStats

Spec == Init /\ [][Next]_vars

(* get_keyword_stats over stores of every content: the store is the one    *)
(* a new KeywordVectorStore is in after add_keywords of a batch of records  *)
(* that get_keyword_ideas can build.                                        *)
StatsVolumes == {0, 100, 10000, 10001}

StatsIdeas ==
    { [text |-> "kw", avg_monthly_searches |-> v, competition |-> c,
       high_top_of_page_bid_micros |-> 2500000, low_top_of_page_bid_micros |-> 0] :
      v \in StatsVolumes, c \in {"LOW", "HIGH"} }

\* the five ideas whose search volumes are 100, 200, 300, 400, 500
FiveIdeas ==
    [i \in 1..5 |->
        [text |-> "kw", avg_monthly_searches |-> 100 * i, competition |-> "MEDIUM",
         high_top_of_page_bid_micros |-> 2500000, low_top_of_page_bid_micros |-> 0]]

StatsResponses ==
    { FiveIdeas } \cup UNION { [1..n -> StatsIdeas] : n \in 1..MaxStatsRecords }

InitStats ==
    \E resp \in StatsResponses :
        LET batch == [i \in 1..Len(resp) |-> KeywordData(resp[i])]
            store == AddKeywordsResult(EmptyStore, batch, "none").store
        IN /\ customer_id = <<>>
           /\ index = store.index
           /\ keyword_data = store.keyword_data
           /\ embeddings = store.embeddings
           /\ index_file = NoIndexFile
           /\ pkl_file = NoPklFile
           /\ loaded = FALSE
           /\ last = Call("add_keywords", <<batch, "none">>)
           /\ outcome = Return("None")
           /\ calls = [NoCalls EXCEPT !.encode = 1]
           /\ request = <<>>
           /\ credentials = <<>>
           /\ token_file = NoTokenFile
           /\ client_secrets_file = TRUE
           /\ grants = 0
           /\ revoked = {}

NextStats == GetKeywordStats

SpecStats == InitStats /\ [][NextStats]_vars

(* GoogleAdsOAuth2. *)

\* a step that is not reached has no result to draw
AuthenticateDraws(creds, file, refresh, flow, offline) ==
    LET held == IF file.exists THEN file.content ELSE creds
        refreshable == held # <<>> /\ held[1].expired /\ held[1].refresh_token
        flows == (held = <<>> \/ (refreshable /\ refresh = "raise"))
                 /\ client_secrets_file
    IN /\ refresh = "raise" \/ (refreshable /\ held[1].grant \notin revoked)
       /\ flow = "raise" \/ flows
       /\ offline => (flows /\ flow = "ok")
       /\ (flows /\ flow = "ok") => grants < MaxGrants

SetHandler(r) ==
    /\ credentials' = r.credentials
    /\ token_file' = r.token_file
    /\ grants' = r.grants

\* GoogleAdsOAuth2.__init__: a new handler, as at the start of a run
NewHandler ==
    /\ credentials' = <<>>
    /\ last' = Call("new_handler", <<>>)
    /\ outcome' = Return("None")
    /\ UNCHANGED <<token_file, client_secrets_file, grants, revoked>>
    /\ UNCHANGED KeywordVars

\* GoogleAdsOAuth2.authenticate
Authenticate ==
    \E refresh \in {"ok", "raise"}, flow \in {"ok", "raise"}, offline \in BOOLEAN :
        LET r == AuthenticateResult(credentials, token_file, client_secrets_file,
                                    grants, refresh, flow, offline)
        IN /\ AuthenticateDraws(credentials, token_file, refresh, flow, offline)
           /\ SetHandler(r)
           /\ outcome' = r.outcome
           /\ last' = Call("authenticate", <<>>)
           /\ UNCHANGED <<client_secrets_file, revoked>>
           /\ UNCHANGED KeywordVars

\* GoogleAdsOAuth2.get_refresh_token
GetRefreshToken ==
    \E refresh \in {"ok", "raise"}, flow \in {"ok", "raise"}, offline \in BOOLEAN :
        LET r == AuthenticateResult(credentials, token_file, client_secrets_file,
                                    grants, refresh, flow, offline)
        IN /\ IF credentials = <<>>
              THEN /\ AuthenticateDraws(credentials, token_file, refresh, flow, offline)
                   /\ SetHandler(r)
                   /\ outcome' = IF r.outcome.kind = "raise" THEN r.outcome
                                 ELSE Return(RefreshTokenOf(r.credentials[1]))
              ELSE /\ refresh = "raise" /\ flow = "raise" /\ ~offline
                   /\ UNCHANGED <<credentials, token_file, grants>>
                   /\ outcome' = Return(RefreshTokenOf(credentials[1]))
           /\ last' = Call("get_refresh_token", <<>>)
           /\ UNCHANGED <<client_secrets_file, revoked>>
           /\ UNCHANGED KeywordVars

\* GoogleAdsOAuth2.get_token_info
GetTokenInfo ==
    \E refresh \in {"ok", "raise"}, flow \in {"ok", "raise"}, offline \in BOOLEAN :
        LET r == AuthenticateResult(credentials, token_file, client_secrets_file,
                                    grants, refresh, flow, offline)
        IN /\ IF credentials = <<>>
              THEN /\ AuthenticateDraws(credentials, token_file, refresh, flow, offline)
                   /\ SetHandler(r)
                   /\ outcome' = IF r.outcome.kind = "raise" THEN r.outcome
                                 ELSE Return(TokenInfo(r.credentials[1]))
              ELSE /\ refresh = "raise" /\ flow = "raise" /\ ~offline
                   /\ UNCHANGED <<credentials, token_file, grants>>
                   /\ outcome' = Return(TokenInfo(credentials[1]))
           /\ last' = Call("get_token_info", <<>>)
           /\ UNCHANGED <<client_secrets_file, revoked>>
           /\ UNCHANGED KeywordVars

\* GoogleAdsOAuth2.revoke_credentials
RevokeCredentials ==
    \E revoke \in {"ok", "raise"} :
        LET r == RevokeResult(credentials, token_file, revoked, revoke)
        IN /\ revoke = "ok" => (credentials # <<>> /\ credentials[1].grant \notin revoked)
           /\ credentials' = r.credentials
           /\ token_file' = r.token_file
           /\ revoked' = r.revoked
           /\ outcome' = Return("None")
           /\ last' = Call("revoke_credentials", <<revoke>>)
           /\ UNCHANGED <<client_secrets_file, grants>>
           /\ UNCHANGED KeywordVars

\* the credentials c once their access token's expiry has passed
Expired(c) == IF c = <<>> THEN c ELSE << [c[1] EXCEPT !.expired = TRUE] >>

(* Time passes: Credentials.expired compares the expiry with the clock, so  *)
(* the access tokens held and stored expire without any call.               *)
TokensExpire ==
    /\ \/ (credentials # <<>> /\ ~credentials[1].expired)
       \/ (token_file.exists /\ ~token_file.content[1].expired)
    /\ credentials' = Expired(credentials)
    /\ token_file' = [token_file EXCEPT !.content = Expired(token_file.content)]
    /\ last' = Call("tokens_expire", <<>>)
    /\ outcome' = Return("None")
    /\ UNCHANGED <<client_secrets_file, grants, revoked>>
    /\ UNCHANGED KeywordVars

\* the handler right after construction; the client secrets file may be missing
InitOAuth ==
    /\ customer_id = <<>>
    /\ index = NoIndex
    /\ keyword_data = <<>>
    /\ embeddings = <<>>
    /\ index_file = NoIndexFile
    /\ pkl_file = NoPklFile
    /\ loaded = FALSE
    /\ last = Call("new_handler", <<>>)
    /\ outcome = Return("None")
    /\ calls = NoCalls
    /\ request = <<>>
    /\ credentials = <<>>
    /\ token_file = NoTokenFile
    /\ client_secrets_file \in BOOLEAN
    /\ grants = 0
    /\ revoked = {}

NextOAuth ==
    \/ NewHandler
    \/ Authenticate
    \/ GetRefreshToken
    \/ GetTokenInfo
    \/ RevokeCredentials
    \/ TokensExpire

SpecOAuth == InitOAuth /\ [][NextOAuth]_vars

----------------------------------------------------------------------------
(* The claims. *)

\* the vector add_keywords stores for a record
Embedded(kd) == NormalizeL2(ModelEncode(KeywordText(kd)))

IsPrefix(xs, ys) == Len(xs) <= Len(ys) /\ SubSeq(ys, 1, Len(xs)) = xs

(* C1: in a store that started empty and was filled by add_keywords alone   *)
(* (no load has read an artifact into it), the index holds as many vectors  *)
(* as there are records, and the vector at position i is the embedding of   *)
(* record i; a store without index holds no record.                         *)
C1_RecordsPairedWithVectors ==
    ~loaded =>
        /\ Len(index.vecs) = Len(keyword_data)
        /\ \A i \in 1..Len(keyword_data) : index.vecs[i] = Embedded(keyword_data[i])
        /\ ~index.exists => keyword_data = <<>>

\* a second add_keywords call has returned, after a batch of two different records
C1_Witness ==
    /\ ~loaded
    /\ last.op = "add_keywords" /\ outcome.kind = "return"
    /\ Len(keyword_data) = 2 /\ keyword_data[1] # keyword_data[2]

(* C2: search returns at most k pairs, their scores in non-increasing order. *)
C2_SearchAtMostKSorted ==
    (last.op = "search" /\ outcome.kind = "return") =>
        /\ Len(outcome.value) <= last.args[2]
        /\ \A i \in 1..(Len(outcome.value) - 1) :
               outcome.value[i][2] >= outcome.value[i + 1][2]

\* a search has returned two hits of different scores
C2_Witness ==
    /\ last.op = "search" /\ outcome.kind = "return"
    /\ Len(outcome.value) = 2
    /\ outcome.value[1][2] > outcome.value[2][2]

(* C3: search on a store without records returns the empty sequence and     *)
(* raises nothing, whatever the query, k and the state of the index.         *)
C3_SearchEmptyStore ==
    (last.op = "search" /\ keyword_data = <<>>) => outcome = Return(<<>>)

\* a search on a store that holds an index and no record
C3_Witness ==
    /\ last.op = "search" /\ keyword_data = <<>> /\ index.exists
    /\ last.args[2] = MaxK

\* save(path) with nothing failing, then load(path) into a new store
RoundTrip(store, disk) ==
    LoadResult(EmptyStore, SaveResult(store, disk, "none").disk, "none").store

C5_LoadNoOpWhenArtifactMissing ==
    [][ (last'.op = "load" /\ last'.args = <<"none">>
            /\ ~(index_file.exists /\ pkl_file.exists))
        => (/\ index' = index
            /\ keyword_data' = keyword_data
            /\ embeddings' = embeddings
            /\ outcome'.kind = "return") ]_vars

\* the spec's ConfigurationError is the ValueError get_keyword_ideas raises
ConfigurationError == "ValueError"

(* C6: with no customer id bound (None, or empty once the dashes are        *)
(* stripped) get_keyword_ideas, called directly or by update_keyword_data,   *)
(* raises the configuration error without having called the keyword API.     *)
C6_NoCustomerIdFailsBeforeApi ==
    (/\ last.op \in {"get_keyword_ideas", "update_keyword_data"}
     /\ (customer_id = <<>> \/ customer_id = << <<>> >>))
    => (outcome = Raise(ConfigurationError) /\ calls.api = 0)

\* get_keyword_ideas was called with a customer id that is empty once stripped
C6_Witness ==
    /\ last.op = "get_keyword_ideas"
    /\ customer_id = << <<>> >>
    /\ outcome.kind = "raise"

(* C7: a query whose completion call fails returns the error text, naming    *)
(* the failure, and raises nothing.                                          *)
C7_CompletionFailureReturnsText ==
    (last.op = "query" /\ last.args[4] = "raise") =>
        /\ calls.completion = 1
        /\ outcome = Return(<<"Error generating response: ", "APIError">>)

\* the completion call of a query over a store with records has failed
C7_Witness ==
    /\ last.op = "query" /\ last.args[4] = "raise"
    /\ keyword_data # <<>>
    /\ request # <<>>

(* C8, as stated: after startup no operation, load included, removes or      *)
(* reorders a stored record.                                                 *)
C8_NeverShrinks ==
    [][ last'.op \notin {"new_store", "rag_init"}
        => IsPrefix(keyword_data, keyword_data') ]_vars

(* C8, amended: every operation but load (and the construction of a new     *)
(* store) keeps the stored records as a prefix of the record sequence.       *)
C8_NeverShrinksButLoad ==
    [][ last'.op \notin {"new_store", "rag_init", "load"}
        => IsPrefix(keyword_data, keyword_data') ]_vars

\* a second ingestion has added to the records of the first
C8_Witness ==
    /\ last.op \in {"add_keywords", "update_keyword_data"}
    /\ outcome.kind = "return"
    /\ Len(last.args[1]) = 1 /\ Len(keyword_data) = 2

(* C9: when update_keyword_data returns, both artifacts are on disk and      *)
(* hold the records, the embeddings and the index of the store, which end    *)
(* with the batch just fetched.                                              *)
C9_PersistedAfterUpdate ==
    (last.op = "update_keyword_data" /\ outcome.kind = "return") =>
        /\ pkl_file.exists /\ index_file.exists /\ index.exists
        /\ pkl_file.keyword_data = keyword_data
        /\ pkl_file.embeddings = embeddings
        /\ index_file.vecs = index.vecs
        /\ Len(last.args[1]) <= Len(keyword_data)
        /\ SubSeq(keyword_data, Len(keyword_data) - Len(last.args[1]) + 1,
                  Len(keyword_data)) = last.args[1]

\* a second update_keyword_data has returned
C9_Witness ==
    /\ last.op = "update_keyword_data" /\ outcome.kind = "return"
    /\ Len(last.args[1]) = 1 /\ Len(keyword_data) = 2

(* C10: get_keyword_stats on a store without records returns the mapping    *)
(* whose only key is total_keywords, with value 0.                           *)
C10_StatsOfEmptyStore ==
    (last.op = "get_keyword_stats" /\ keyword_data = <<>>) =>
        /\ outcome.kind = "return"
        /\ DOMAIN outcome.value = {"total_keywords"}
        /\ outcome.value.total_keywords = 0

\* get_keyword_stats was called on a store without records
C10_Witness ==
    /\ last.op = "get_keyword_stats" /\ keyword_data = <<>>
    /\ customer_id # <<>>

\* the search volumes of the stored records
Volumes == [i \in 1..Len(keyword_data) |-> keyword_data[i].search_volume]

RECURSIVE Total(_, _)
Total(xs, n) == IF n = 0 THEN 0 ELSE xs[n] + Total(xs, n - 1)

(* m (a fraction) is the median of xs: with the entries put in ascending    *)
(* order, m is the middle one, or midway between the two middle ones.       *)
IsMedianOf(m, xs) ==
    LET n == Len(xs)
        h == n \div 2
    IN \E p \in [1..n -> 1..n] :
          /\ \A a, b \in 1..n : a # b => p[a] # p[b]
          /\ \A a, b \in 1..n : a < b => xs[p[a]] <= xs[p[b]]
          /\ IF n % 2 = 1 THEN m.n = xs[p[h + 1]] * m.d
             ELSE 2 * m.n = (xs[p[h]] + xs[p[h + 1]]) * m.d

(* C11: for a store with records get_keyword_stats reports their number,    *)
(* the mean and the median of their search volumes, the number of records   *)
(* whose search volume is above 10000 and the number whose competition is   *)
(* LOW; volumes 100, 200, 300, 400, 500 give mean 300 and median 300.        *)
C11_StatsOfRecords ==
    (last.op = "get_keyword_stats" /\ keyword_data # <<>>) =>
        LET st == outcome.value
            n == Len(keyword_data)
        IN /\ outcome.kind = "return"
           /\ st.total_keywords = n
           /\ st.avg_search_volume.n * n = Total(Volumes, n) * st.avg_search_volume.d
           /\ IsMedianOf(st.median_search_volume, Volumes)
           /\ st.high_volume_keywords =
                  Cardinality({ i \in 1..n : keyword_data[i].search_volume > 10000 })
           /\ st.low_competition_keywords =
                  Cardinality({ i \in 1..n : keyword_data[i].competition = "LOW" })
           /\ Volumes = <<100, 200, 300, 400, 500>> =>
                  /\ st.avg_search_volume = [n |-> 300, d |-> 1]
                  /\ st.median_search_volume = [n |-> 300, d |-> 1]

\* the statistics of the five records of volumes 100 to 500 were computed
C11_Witness ==
    /\ last.op = "get_keyword_stats"
    /\ Volumes = <<100, 200, 300, 400, 500>>
    /\ outcome.value.total_keywords = 5

(* C12: in every record get_keyword_ideas returns, cpc_high and cpc_low are *)
(* the idea's bid in micros divided by 1,000,000 (2500000 micros give 2.50),  *)
(* and an unset or zero bid, or an unset monthly search count, gives 0.       *)
C12_BidsInCurrencyUnits ==
    (last.op = "get_keyword_ideas" /\ outcome.kind = "return") =>
        LET resp == last.args[1]
        IN /\ Len(outcome.value) = Len(resp)
           /\ \A i \in 1..Len(resp) :
                 LET idea == resp[i]
                     kd == outcome.value[i]
                 IN /\ kd.cpc_high.n * 1000000 =
                           idea.high_top_of_page_bid_micros * kd.cpc_high.d
                    /\ kd.cpc_low.n * 1000000 =
                           idea.low_top_of_page_bid_micros * kd.cpc_low.d
                    /\ idea.high_top_of_page_bid_micros = 2500000 =>
                           kd.cpc_high = [n |-> 5, d |-> 2] /\ Fmt2(kd.cpc_high) = 250
                    /\ idea.high_top_of_page_bid_micros = 0 =>
                           kd.cpc_high = [n |-> 0, d |-> 1]
                    /\ idea.low_top_of_page_bid_micros = 0 =>
                           kd.cpc_low = [n |-> 0, d |-> 1]
                    /\ idea.avg_monthly_searches = 0 => kd.search_volume = 0

\* get_keyword_ideas returned a record of a bid of 2500000 micros and one without bids
C12_Witness ==
    /\ last.op = "get_keyword_ideas" /\ outcome.kind = "return"
    /\ Len(outcome.value) = 2
    /\ last.args[1][1].high_top_of_page_bid_micros = 0
    /\ last.args[1][2].high_top_of_page_bid_micros = 2500000

(* C13: one update_keyword_data calls the keyword API, the embedding model  *)
(* and save at most once each, and one query calls the completion API at    *)
(* most once, whether the calls succeed or fail.                            *)
C13_NoRetry ==
    /\ last.op = "update_keyword_data" =>
           calls.api <= 1 /\ calls.encode <= 1 /\ calls.save <= 1
    /\ last.op = "query" => calls.completion <= 1

\* update_keyword_data ended on a failure of the keyword API, called once
C13_Witness ==
    /\ last.op = "update_keyword_data"
    /\ outcome = Raise("GoogleAdsException")
    /\ calls.api = 1

(* C14: the credentials authenticate returns are there and valid.           *)
C14_AuthenticateReturnsValid ==
    (last.op = "authenticate" /\ outcome.kind = "return") =>
        /\ outcome.value # <<>>
        /\ Valid(outcome.value[1])

(* C20: after revoke_credentials the token file is gone, and the next       *)
(* authenticate, get_refresh_token or get_token_info that returns has run   *)
(* the OAuth flow: the handler then holds credentials of a new grant, not   *)
(* the ones it held before the revoke (here: the ones the server revoked).  *)
C20_RevokedCredentialsNotHandedOut ==
    [][ /\ last'.op = "revoke_credentials" => ~token_file'.exists
        /\ (/\ last = Call("revoke_credentials", <<"ok">>)
            /\ last'.op \in {"authenticate", "get_refresh_token", "get_token_info"}
            /\ outcome'.kind = "return")
           => (/\ grants' = grants + 1
               /\ credentials' # <<>>
               /\ credentials'[1].grant = grants'
               /\ credentials' # credentials) ]_vars

(* C15: search, query, get_keyword_stats and save leave the records, the    *)
(* embeddings and the index, contents and order, as they were.               *)
C15_ReadersLeaveStore ==
    [][ last'.op \in {"search", "query", "get_keyword_stats", "save"}
        => (/\ keyword_data' = keyword_data
            /\ index' = index
            /\ embeddings' = embeddings) ]_vars

\* a query has run over a store of two different records
C15_Witness ==
    /\ last.op = "query"
    /\ Len(keyword_data) = 2 /\ keyword_data[1] # keyword_data[2]
    /\ Len(index.vecs) = 2

(* C16: an add_keywords call in which the embedding or the index insertion  *)
(* fails ends with the error; it removes no record and no vector stored     *)
(* before, and a store whose records and vectors were equal in number has   *)
(* them equal in number afterwards.                                         *)
C16_FailedAddKeepsPairing ==
    [][ (last'.op = "add_keywords" /\ last'.args[2] # "none")
        => (/\ outcome'.kind = "raise"
            /\ IsPrefix(keyword_data, keyword_data')
            /\ IsPrefix(index.vecs, index'.vecs)
            /\ Len(index.vecs) = Len(keyword_data)
                  => Len(index'.vecs) = Len(keyword_data')) ]_vars

\* the index insertion of a batch failed in a store that held a record already
C16_Witness ==
    /\ last.op = "add_keywords" /\ last.args[2] = "index_add"
    /\ Len(last.args[1]) = 1
    /\ Len(keyword_data) = 1 /\ Len(index.vecs) = 1

\* the sentence query appends to the user prompt with include_recommendations
RecommendationSentence ==
    "Include strategic recommendations for keyword targeting and campaign optimization."

(* C17: the context in the user prompt of a query lists the pairs search    *)
(* returned, one entry each, numbered from 1 in the order returned; when    *)
(* search returned nothing the context is the no-data statement, with no    *)
(* entry; the recommendation sentence follows the context in the prompt      *)
(* exactly when include_recommendations is true.                             *)
C17_ContextListsSearchResults ==
    (last.op = "query" /\ request # <<>>) =>
        LET prompt == request[2].content
            context == prompt[3]
        IN /\ \E found \in SearchOutcomes(Store, last.args[1], last.args[2], "none") :
                /\ found.kind = "return"
                /\ Len(context.entries) = Len(found.value)
                /\ \A i \in 1..Len(found.value) :
                      /\ context.entries[i].number = i
                      /\ context.entries[i].keyword = found.value[i][1].keyword
                      /\ context.entries[i].search_volume = found.value[i][1].search_volume
                      /\ context.entries[i].competition = found.value[i][1].competition
                      /\ context.entries[i].relevance = Fmt3Score(found.value[i][2])
                /\ found.value = <<>> <=> context.text = "No relevant keyword data found."
           /\ context.text # ""
           /\ (\E j \in 4..Len(prompt) : prompt[j] = RecommendationSentence) <=> last.args[3]

\* a query with recommendations whose context lists two different records
C17_Witness ==
    /\ last.op = "query" /\ request # <<>>
    /\ last.args[3]
    /\ Len(request[2].content[3].entries) = 2
    /\ request[2].content[3].entries[1].keyword # request[2].content[3].entries[2].keyword

(* C18: the pairs search returns are hits: at most min(k, n) of them for a  *)
(* store of n records, their records standing at different positions of the *)
(* store, none of them made from the placeholder (position -1, no score)   *)
(* by which the index fills up an answer of fewer than k hits.              *)
C18_SearchReturnsRealHits ==
    (last.op = "search" /\ outcome.kind = "return") =>
        LET hits == outcome.value
            n == Len(keyword_data)
        IN /\ Len(hits) <= Min(last.args[2], n)
           /\ \A i \in 1..Len(hits) : hits[i][2] # NO_SCORE
           /\ \E pos \in [1..Len(hits) -> 1..n] :
                 /\ \A i \in 1..Len(hits) : hits[i][1] = keyword_data[pos[i]]
                 /\ \A i, j \in 1..Len(hits) : i # j => pos[i] # pos[j]

(* C19: an update_keyword_data whose get_keyword_ideas fails, for want of a *)
(* customer id or by an error of the keyword API, raises that error; the    *)
(* records, the embeddings and the index are as before, save is not called  *)
(* and the two artifacts are as before.                                     *)
C19_FetchFailureChangesNothing ==
    [][ (/\ last'.op = "update_keyword_data"
         /\ (customer_id = <<>> \/ customer_id = << <<>> >> \/ last'.args[2] = "raise"))
        => (/\ outcome' = IF last'.args[2] = "raise" THEN Raise("GoogleAdsException")
                          ELSE Raise("ValueError")
            /\ keyword_data' = keyword_data
            /\ embeddings' = embeddings
            /\ index' = index
            /\ calls'.save = 0 /\ calls'.encode = 0
            /\ index_file' = index_file
            /\ pkl_file' = pkl_file) ]_vars

\* the keyword API failed in an update of a store that holds and has saved a record
C19_Witness ==
    /\ last.op = "update_keyword_data" /\ last.args[2] = "raise"
    /\ outcome.kind = "raise"
    /\ keyword_data # <<>> /\ pkl_file.exists

====
